---- MODULE Spec2Model ----
(***************************************************************************)
(* A model of two components of FEDOT:                                     *)
(*   - MultiTimesAnalyze (fedot/sensitivity/deletion_methods/              *)
(*     multi_times_analysis.py): the iterative node-deletion search;       *)
(*   - train_test_data_setup (fedot/core/data/data_split.py): the          *)
(*     train/test splitter.                                                *)
(* Scores are fixed-point numbers in hundredths (1.0 is 100, delta 10e-3   *)
(* is 1); a ratio a/b is the pair <<a, b>>; Python's None is <<>>, and an  *)
(* optional integer v is <<v>>.                                            *)
(***************************************************************************)
EXTENDS Integers, Sequences, FiniteSets, TLC

VARIABLES
    \* ---- MultiTimesAnalyze ----
    nodes,                 \* self.chain.nodes: the live chain's node list
    original_chain_len,    \* self.original_chain_len
    total_nodes_deleted,   \* local of analyze
    iteration_index,       \* local of analyze
    worst_node_score,      \* local of analyze
    delta,                 \* meta_params.delta of the running call
    deletion_scores,       \* local of analyze: the scores of the last analysis
    deleted,               \* the nodes handed to delete_node by the running call
    removed,               \* the nodes deleted from the live chain since construction
    calls,                 \* number of analyze calls made so far
    pc,                    \* position of the analyze call
    exc,                   \* the exception that left analyze, or "none"
    result,                \* the value analyze returned, <<>> while there is none
    \* ---- train_test_data_setup ----
    s_data,                \* the data argument
    s_call,                \* the other arguments of the call
    s_debug,               \* __debug__
    s_pc,                  \* position of the call
    s_args,                \* input_arguments
    s_handed,              \* the arguments handed to a split function, in order
    s_key,                 \* the MultiModalData source the loop is at
    s_train,               \* train_data: one container per source
    s_test,                \* test_data: one container per source
    s_err,                 \* the exception that left the call, or NoError
    \* ---- RNNImplementation ----
    r_params,              \* the OperationParameters given to __init__
    r_debug,               \* __debug__: assert statements are executed
    r_pc,                  \* what the object has gone through last
    r_type_rnn,            \* self.type_rnn
    r_seed,                \* self.seed
    r_model,               \* self.model: <<>> for None, else <<model>>
    r_prep,                \* self.preprocessing_params holds 'mean' and 'std'
    r_fits,                \* number of fit calls made
    r_err                  \* the exception of the last call, or NoError

mtaVars == <<nodes, original_chain_len, total_nodes_deleted, iteration_index,
             worst_node_score, delta, deletion_scores, deleted, removed,
             calls, pc, exc, result>>

splitVars == <<s_data, s_call, s_debug, s_pc, s_args, s_handed, s_key,
               s_train, s_test, s_err>>

rnnVars == <<r_params, r_debug, r_pc, r_type_rnn, r_seed, r_model, r_prep,
             r_fits, r_err>>

vars == <<mtaVars, splitVars, rnnVars>>

----------------------------------------------------------------------------
\* Bounds of the model

MaxLen == 4
MaxCalls == 2
MaxSamples == 4
MaxSeries == 4
MaxForecast == 2
MaxBlocks == 2
MaxFits == 2

\* The deletion scores the analyzer may report (hundredths)
Scores == {100, 101, 105, 130}

----------------------------------------------------------------------------
\* MultiTimesAnalyze

\* 1.0 in hundredths
ONE == 100

default_mta_meta_params == [delta |-> 1, worst_node_score |-> 110]

\* The meta_params argument of analyze: None, or an MTAMetaParams tuple
MetaParamsArgs ==
    {<<>>,
     <<[delta |-> 5, worst_node_score |-> 110]>>,
     <<[delta |-> 1, worst_node_score |-> 100]>>}

\* max(deletion_scores)
RECURSIVE PyMax(_)
PyMax(s) ==
    IF Len(s) = 1 THEN s[1]
    ELSE LET m == PyMax(Tail(s)) IN IF s[1] >= m THEN s[1] ELSE m

\* list.index(x): the first position holding x (positions from 1)
RECURSIVE PyIndexFrom(_, _, _)
PyIndexFrom(s, x, i) ==
    IF s[i] = x THEN i ELSE PyIndexFrom(s, x, i + 1)

PyIndexLast(s, x) ==
    CHOOSE i \in 1..Len(s) : s[i] = x /\ \A j \in (i + 1)..Len(s) : s[j] # x

PyIndex(s, x) == PyIndexFrom(s, x, 1)

DeleteNodeAndNext(ns, node) ==
    SelectSeq(ns, LAMBDA n : n # node /\ n # node + 1)

\* Chain.delete_node, on the node list: the node leaves the list
delete_node(ns, node) ==
    SelectSeq(ns, LAMBDA n : n # node)

\* Chain.length
ChainLength(ns) == Len(ns)

LengthReductionRatioOfCurrent(number_of_deleted_nodes) ==
    <<number_of_deleted_nodes, ChainLength(nodes)>>

\* _length_reduction_ratio: number_of_deleted_nodes / self.original_chain_len
LengthReductionRatio(number_of_deleted_nodes) ==
    <<number_of_deleted_nodes, original_chain_len>>

LoopConditionOffByOne ==
    worst_node_score > ONE + delta /\ Len(nodes) > 1

\* the while condition of analyze
LoopCondition ==
    worst_node_score > ONE + delta /\ Len(nodes) > 2

\* __init__: the state after construction, for a chain of L nodes
MTAInit ==
    \E L \in 0..MaxLen :
        /\ nodes = [i \in 1..L |-> i]
        /\ original_chain_len = ChainLength([i \in 1..L |-> i])
        /\ total_nodes_deleted = 0
        /\ iteration_index = 1
        /\ worst_node_score = 0
        /\ delta = 0
        /\ deletion_scores = <<>>
        /\ deleted = <<>>
        /\ removed = {}
        /\ calls = 0
        /\ pc = "idle"
        /\ exc = "none"
        /\ result = <<>>
        /\ s_data = <<>>
        /\ s_call = <<>>
        /\ s_debug = TRUE
        /\ s_pc = "idle"
        /\ s_args = <<>>
        /\ s_handed = <<>>
        /\ s_key = 1
        /\ s_train = <<>>
        /\ s_test = <<>>
        /\ s_err = <<>>
        /\ r_params = <<>>
        /\ r_debug = TRUE
        /\ r_pc = "idle"
        /\ r_type_rnn = ""
        /\ r_seed = <<>>
        /\ r_model = <<>>
        /\ r_prep = FALSE
        /\ r_fits = 0
        /\ r_err = <<>>

\* analyze is entered: the lines before the loop
AnalyzeCall ==
    /\ pc \in {"idle", "done", "raised"}
    /\ calls < MaxCalls
    /\ \E arg \in MetaParamsArgs :
         LET meta_params == IF arg = <<>> THEN default_mta_meta_params ELSE arg[1]
         IN /\ delta' = meta_params.delta
            /\ worst_node_score' = meta_params.worst_node_score
    /\ total_nodes_deleted' = 0
    /\ iteration_index' = 1
    /\ deletion_scores' = <<>>
    /\ deleted' = <<>>
    /\ calls' = calls + 1
    /\ pc' = "loop"
    /\ exc' = "none"
    /\ result' = <<>>
    /\ UNCHANGED <<nodes, original_chain_len, removed>>
    /\ UNCHANGED splitVars
    /\ UNCHANGED rnnVars

\* one pass of the loop body in which _chain_analysis returns scores
Iteration ==
    /\ pc = "loop"
    /\ LoopCondition
    /\ \E scores \in [1..Len(nodes) -> Scores] :
         LET worst == PyMax(scores) IN
         /\ deletion_scores' = scores
         /\ worst_node_score' = worst
         /\ IF worst > ONE + delta
            THEN LET worst_node_index == PyIndex(scores, worst) IN
                 /\ nodes' = delete_node(nodes, nodes[worst_node_index])
                 /\ deleted' = Append(deleted, nodes[worst_node_index])
                 /\ removed' = removed \cup {nodes[worst_node_index]}
                 /\ total_nodes_deleted' = total_nodes_deleted + 1
            ELSE UNCHANGED <<nodes, deleted, removed, total_nodes_deleted>>
    /\ iteration_index' = iteration_index + 1
    /\ UNCHANGED <<original_chain_len, delta, calls, pc, exc, result>>
    /\ UNCHANGED splitVars
    /\ UNCHANGED rnnVars

IterationRaisesRollback ==
    /\ pc = "loop"
    /\ LoopCondition
    /\ pc' = "raised"
    /\ exc' = "Exception"
    /\ nodes' = nodes \o deleted
    /\ removed' = removed \ {deleted[i] : i \in 1..Len(deleted)}
    /\ UNCHANGED <<original_chain_len, total_nodes_deleted,
                   iteration_index, worst_node_score, delta, deletion_scores,
                   deleted, calls, result>>
    /\ UNCHANGED splitVars
    /\ UNCHANGED rnnVars

\* one pass of the loop body in which _chain_analysis raises: analyze has no
\* try statement, so the exception leaves the call
IterationRaises ==
    /\ pc = "loop"
    /\ LoopCondition
    /\ pc' = "raised"
    /\ exc' = "Exception"
    /\ UNCHANGED <<nodes, original_chain_len, total_nodes_deleted,
                   iteration_index, worst_node_score, delta, deletion_scores,
                   deleted, removed, calls, result>>
    /\ UNCHANGED splitVars
    /\ UNCHANGED rnnVars

\* the loop is left: return self._length_reduction_ratio(total_nodes_deleted)
Finish ==
    /\ pc = "loop"
    /\ ~LoopCondition
    /\ IF original_chain_len = 0
       THEN /\ pc' = "raised"
            /\ exc' = "ZeroDivisionError"
            /\ result' = result
       ELSE /\ pc' = "done"
            /\ exc' = exc
            /\ result' = LengthReductionRatio(total_nodes_deleted)
    /\ UNCHANGED <<nodes, original_chain_len, total_nodes_deleted,
                   iteration_index, worst_node_score, delta, deletion_scores,
                   deleted, removed, calls>>
    /\ UNCHANGED splitVars
    /\ UNCHANGED rnnVars

MTANext ==
    \/ AnalyzeCall
    \/ Iteration
    \/ IterationRaises
    \/ Finish


----------------------------------------------------------------------------
\* train_test_data_setup: values
\* An optional integer (random_seed, validation_blocks) is <<>> for None and
\* <<v>> for the integer v. A split_ratio is the pair <<num, den>>; the
\* ratios used are multiples of 1/4, which binary floating point holds
\* exactly, so 1. - split_ratio and its products are exact.

NoError == [kind |-> "none", site |-> "none", names |-> {}, lists |-> {}]

\* the keys of split_func_dict
SupportedDataTypes == {"multi_ts", "ts", "table", "image", "text"}

TimeSeriesDataTypes == {"multi_ts", "ts"}

\* the container types train_test_data_setup accepts
SupportedContainers == {"InputData", "MultiModalData"}

\* len(data)
DataLen(data) == Len(data.target)

\* InputData.slice(start, stop), for 0 <= start <= stop <= len(data)
Slice(data, start, stop) ==
    [data EXCEPT !.idx = SubSeq(data.idx, start + 1, stop),
                 !.features = SubSeq(data.features, start + 1, stop),
                 !.target = SubSeq(data.target, start + 1, stop)]

\* InputData.slice_by_index(ids), ids being positions from 0
SliceByIndex(data, ids) ==
    [data EXCEPT !.idx = [k \in 1..Len(ids) |-> data.idx[ids[k] + 1]],
                 !.features = [k \in 1..Len(ids) |-> data.features[ids[k] + 1]],
                 !.target = [k \in 1..Len(ids) |-> data.target[ids[k] + 1]]]

\* test_data.target[:, 0]
FirstColumn(target) == [k \in 1..Len(target) |-> <<target[k][1]>>]

ForecastHorizonIgnoringBlocks(data, validation_blocks) ==
    data.forecast_length

\* the forecast_length _split_time_series works with
ForecastHorizon(data, validation_blocks) ==
    IF validation_blocks # <<>>
    THEN data.forecast_length * validation_blocks[1]
    ELSE data.forecast_length

OutOfSampleFeaturesKept(train_data, test_data, validation_blocks) ==
    test_data.features

\* the features of the test container: train's in out-of-sample mode
OutOfSampleFeatures(train_data, test_data, validation_blocks) ==
    IF validation_blocks = <<>> THEN train_data.features ELSE test_data.features

\* _split_time_series
SplitTimeSeries(data, args) ==
    LET forecast_length == ForecastHorizon(data, args.validation_blocks)
        n == DataLen(data)
        train_data == Slice(data, 0, n - forecast_length)
        test_slice == Slice(data, n - forecast_length, n)
        test_target == IF test_slice.target_ndim > 1
                       THEN FirstColumn(test_slice.target)
                       ELSE test_slice.target
        test_data == [test_slice EXCEPT
                        !.target = test_target,
                        !.target_ndim = 1,
                        !.features = OutOfSampleFeatures(train_data, test_slice,
                                                         args.validation_blocks)]
    IN [ok |-> TRUE, train |-> <<train_data>>, test |-> <<test_data>>,
        err |-> NoError]

\* the value of __debug__ and the integers np.random.randint may draw are
\* inputs of a run
RandInts == {0, 3}

\* round(a / b) for a >= 0, b > 0: Python rounds a half to the even integer
PyRound(a, b) ==
    LET q == a \div b
        r == a % b
    IN IF 2 * r < b THEN q
       ELSE IF 2 * r > b THEN q + 1
       ELSE IF q % 2 = 0 THEN q ELSE q + 1

\* ceil(a / b) for a >= 0, b > 0
Ceil(a, b) == (a + b - 1) \div b

\* the class labels of a target, and the occurrences of one of them
Labels(target) == {target[k][1] : k \in 1..Len(target)}

CountOf(target, label) ==
    Cardinality({k \in 1..Len(target) : target[k][1] = label})

\* the labels the stratification error message joins: count == 1
SingleOccurrenceLabels(target) ==
    {l \in Labels(target) : CountOf(target, l) = 1}

AreStratificationAllowedNoSizeCheck(data, split_ratio, debug) ==
    IF ~data.has_task
    THEN [raised |-> TRUE, value |-> FALSE,
          err |-> [kind |-> "AttributeError", site |-> "task",
                   names |-> {}, lists |-> {}]]
    ELSE IF data.task_type # "classification"
    THEN [raised |-> FALSE, value |-> FALSE, err |-> NoError]
    ELSE IF ~(\A l \in Labels(data.target) : CountOf(data.target, l) > 1)
    THEN IF debug
         THEN [raised |-> FALSE, value |-> FALSE, err |-> NoError]
         ELSE [raised |-> TRUE, value |-> FALSE,
               err |-> [kind |-> "ValueError", site |-> "stratification",
                        names |-> SingleOccurrenceLabels(data.target),
                        lists |-> {}]]
    ELSE [raised |-> FALSE, value |-> TRUE, err |-> NoError]

\* _are_stratification_allowed
AreStratificationAllowed(data, split_ratio, debug) ==
    IF ~data.has_task
    THEN [raised |-> TRUE, value |-> FALSE,
          err |-> [kind |-> "AttributeError", site |-> "task",
                   names |-> {}, lists |-> {}]]
    ELSE IF data.task_type # "classification"
    THEN [raised |-> FALSE, value |-> FALSE, err |-> NoError]
    ELSE IF ~(\A l \in Labels(data.target) : CountOf(data.target, l) > 1)
    THEN IF debug
         THEN [raised |-> FALSE, value |-> FALSE, err |-> NoError]
         ELSE [raised |-> TRUE, value |-> FALSE,
               err |-> [kind |-> "ValueError", site |-> "stratification",
                        names |-> SingleOccurrenceLabels(data.target),
                        lists |-> {}]]
    ELSE LET test_size == PyRound(Len(data.target)
                                    * (split_ratio[2] - split_ratio[1]),
                                  split_ratio[2])
             labels_count == Cardinality(Labels(data.target))
         IN [raised |-> FALSE, value |-> ~(test_size < labels_count),
             err |-> NoError]

\* random_seed or 42
SeedOrDefault(random_seed) ==
    IF random_seed = <<>> \/ random_seed[1] = 0 THEN <<42>> ELSE random_seed

EffectiveSeedAlways(shuffle, random_seed) ==
    SeedOrDefault(random_seed)

\* (random_seed or 42) if shuffle else None
EffectiveSeed(shuffle, random_seed) ==
    IF shuffle THEN SeedOrDefault(random_seed) ELSE <<>>

\* lines 128-141 of train_test_data_setup: the arguments after the
\* backward-compatibility and consistency rules, or the error of the
\* stratification check
InputArguments(data, call, debug) ==
    LET shuffle1 == call.shuffle \/ call.shuffle_flag
        allowed == AreStratificationAllowed(data, call.split_ratio, debug)
        stratify == call.stratify /\ allowed.value
        shuffle == shuffle1 \/ stratify
        random_seed == EffectiveSeed(shuffle, call.random_seed)
    IN IF allowed.raised
       THEN [ok |-> FALSE, err |-> allowed.err,
             args |-> [split_ratio |-> call.split_ratio, shuffle |-> FALSE,
                       stratify |-> FALSE, random_seed |-> <<>>,
                       validation_blocks |-> call.validation_blocks]]
       ELSE [ok |-> TRUE, err |-> NoError,
             args |-> [split_ratio |-> call.split_ratio,
                       shuffle |-> shuffle,
                       stratify |-> stratify,
                       random_seed |-> random_seed,
                       validation_blocks |-> call.validation_blocks]]

\* ---- sklearn.model_selection.train_test_split, as _split_any calls it ----

RECURSIVE SumOver(_, _)
SumOver(f, S) ==
    IF S = {} THEN 0
    ELSE LET x == CHOOSE y \in S : TRUE IN f[x] + SumOver(f, S \ {x})

\* the elements of a finite set of integers in increasing order
RECURSIVE Sorted(_)
Sorted(S) ==
    IF S = {} THEN <<>>
    ELSE LET m == CHOOSE y \in S : \A z \in S : y <= z
         IN <<m>> \o Sorted(S \ {m})

\* rng.permutation(n) for a seeded generator: a fixed order of 0..n-1 that
\* depends on the seed (here a rotation by the seed)
Permutation(seed, n) == [k \in 1..n |-> (k - 1 + seed) % n]

\* _approximate_mode: n_draws spread over the classes in proportion to their
\* counts, the remainder going to the largest fractional parts
ApproximateMode(counts, n_draws) ==
    LET classes == DOMAIN counts
        total == SumOver(counts, classes)
        floors == [c \in classes |-> (counts[c] * n_draws) \div total]
        rems == [c \in classes |-> (counts[c] * n_draws) % total]
        need == n_draws - SumOver(floors, classes)
        rank == [c \in classes |->
                   Cardinality({d \in classes :
                       rems[d] > rems[c] \/ (rems[d] = rems[c] /\ d < c)})]
    IN [c \in classes |-> floors[c] + (IF rank[c] < need THEN 1 ELSE 0)]

RECURSIVE ConcatClasses(_, _, _, _)
ConcatClasses(classes, perm_of, from, to) ==
    IF classes = <<>> THEN <<>>
    ELSE LET c == Head(classes)
         IN SubSeq(perm_of[c], from[c] + 1, to[c])
              \o ConcatClasses(Tail(classes), perm_of, from, to)

SklearnError(site) ==
    [ok |-> FALSE, train_ids |-> <<>>, test_ids |-> <<>>,
     err |-> [kind |-> "ValueError", site |-> site, names |-> {}, lists |-> {}]]

\* train_test_split(np.arange(0, n), test_size=p/q, shuffle, random_state,
\* stratify): the train and the test positions (from 0), or its ValueError.
\* entropy stands for the process-wide generator used when random_state is None.
TrainTestSplit(n, test_size, shuffle, random_state, stratify_labels, entropy) ==
    LET n_test == Ceil(n * test_size[1], test_size[2])
        n_train == n - n_test
        seed == IF random_state = <<>> THEN entropy ELSE random_state[1]
        perm == Permutation(seed, n)
    IN IF n_train = 0 THEN SklearnError("sklearn: empty train set")
       ELSE IF ~shuffle
       THEN IF stratify_labels # <<>>
            THEN SklearnError("sklearn: stratify without shuffle")
            ELSE [ok |-> TRUE,
                  train_ids |-> [k \in 1..n_train |-> k - 1],
                  test_ids |-> [k \in 1..n_test |-> n_train + k - 1],
                  err |-> NoError]
       ELSE IF stratify_labels = <<>>
       THEN [ok |-> TRUE,
             train_ids |-> SubSeq(perm, n_test + 1, n_test + n_train),
             test_ids |-> SubSeq(perm, 1, n_test),
             err |-> NoError]
       ELSE LET y == stratify_labels[1]
                classes == Labels(y)
                counts == [c \in classes |-> CountOf(y, c)]
            IN IF \E c \in classes : counts[c] < 2
               THEN SklearnError("sklearn: class with one member")
               ELSE IF n_train < Cardinality(classes)
                       \/ n_test < Cardinality(classes)
               THEN SklearnError("sklearn: fewer samples than classes")
               ELSE LET n_i == ApproximateMode(counts, n_train)
                        left == [c \in classes |-> counts[c] - n_i[c]]
                        t_i == ApproximateMode(left, n_test)
                        perm_of == [c \in classes |->
                                      SelectSeq(perm, LAMBDA k : y[k + 1][1] = c)]
                        zero == [c \in classes |-> 0]
                        upto == [c \in classes |-> n_i[c] + t_i[c]]
                    IN [ok |-> TRUE,
                        train_ids |-> ConcatClasses(Sorted(classes), perm_of,
                                                    zero, n_i),
                        test_ids |-> ConcatClasses(Sorted(classes), perm_of,
                                                   n_i, upto),
                        err |-> NoError]

SplitAnyTrainFraction(data, args, entropy) ==
    LET stratify_labels == IF args.stratify THEN <<data.target>> ELSE <<>>
        ids == TrainTestSplit(Len(data.target), args.split_ratio,
                              args.shuffle, args.random_seed,
                              stratify_labels, entropy)
    IN IF ~ids.ok
       THEN [ok |-> FALSE, train |-> <<>>, test |-> <<>>, err |-> ids.err]
       ELSE [ok |-> TRUE,
             train |-> <<SliceByIndex(data, ids.train_ids)>>,
             test |-> <<SliceByIndex(data, ids.test_ids)>>,
             err |-> NoError]

\* _split_any
SplitAny(data, args, entropy) ==
    LET stratify_labels == IF args.stratify THEN <<data.target>> ELSE <<>>
        ids == TrainTestSplit(Len(data.target),
                              <<args.split_ratio[2] - args.split_ratio[1],
                                args.split_ratio[2]>>,
                              args.shuffle, args.random_seed,
                              stratify_labels, entropy)
    IN IF ~ids.ok
       THEN [ok |-> FALSE, train |-> <<>>, test |-> <<>>, err |-> ids.err]
       ELSE [ok |-> TRUE,
             train |-> <<SliceByIndex(data, ids.train_ids)>>,
             test |-> <<SliceByIndex(data, ids.test_ids)>>,
             err |-> NoError]

\* the TypeError of an InputData whose data_type is no key of split_func_dict;
\* the message holds type(data) and the keys of split_func_dict
UnknownDataTypeError(data) ==
    [kind |-> "TypeError", site |-> "unknown data type",
     names |-> {data.kind}, lists |-> SupportedDataTypes]

\* the ValueError of the final else branch; the message holds type(data) and
\* "InputData, MultiModalData"
UnsupportedDatasetError(data) ==
    [kind |-> "ValueError", site |-> "unsupported dataset",
     names |-> {data.kind}, lists |-> SupportedContainers]

\* the InputData branch of train_test_data_setup, after the arguments are set
SplitInputData(data, args, entropy) ==
    IF data.data_type \notin SupportedDataTypes
    THEN [ok |-> FALSE, train |-> <<>>, test |-> <<>>,
          err |-> UnknownDataTypeError(data)]
    ELSE IF data.data_type \in TimeSeriesDataTypes
    THEN SplitTimeSeries(data, args)
    ELSE SplitAny(data, args, entropy)

\* train_test_data_setup on one InputData: what the recursive call of the
\* MultiModalData branch runs for a source
SetupInputData(data, call, debug, entropy) ==
    LET ia == InputArguments(data, call, debug)
    IN IF ~ia.ok
       THEN [ok |-> FALSE, train |-> <<>>, test |-> <<>>, err |-> ia.err,
             args |-> ia.args, handed |-> FALSE]
       ELSE LET r == SplitInputData(data, ia.args, entropy)
            IN [ok |-> r.ok, train |-> r.train, test |-> r.test, err |-> r.err,
                args |-> ia.args,
                handed |-> data.data_type \in SupportedDataTypes]

----------------------------------------------------------------------------
\* train_test_data_setup: the inputs of a call

ClassLabels == {0, 1}

SplitRatios == {<<1, 4>>, <<1, 2>>, <<3, 4>>}

SeedArgs == {<<>>, <<0>>, <<7>>}

\* series lengths with forecast lengths: the small ones, and 120 with 12
SeriesShapes ==
    {<<n, fl>> : n \in 0..MaxSeries, fl \in 1..MaxForecast} \cup {<<120, 12>>}

BlockArgs == {<<>>} \cup {<<b>> : b \in 0..MaxBlocks}

Targets ==
    UNION {[1..n -> {<<l>> : l \in ClassLabels}] : n \in 0..MaxSamples}

EmptyArgs ==
    [split_ratio |-> <<0, 1>>, shuffle |-> FALSE, stratify |-> FALSE,
     random_seed |-> <<>>, validation_blocks |-> <<>>]

\* a data object: its type, task, data_type, forecast_length, target, the
\* dimensions of the target and, for a MultiModalData, its sources
Container(kind, has_task, task, dt, fl, target, ndim, sources) ==
    [kind |-> kind, has_task |-> has_task, task_type |-> task,
     data_type |-> dt, forecast_length |-> fl,
     idx |-> [k \in 1..Len(target) |-> k - 1],
     features |-> [k \in 1..Len(target) |-> k - 1],
     target |-> target, target_ndim |-> ndim, sources |-> sources]

\* a series of n values, with one or two target columns
SeriesTarget(n, ndim) ==
    [k \in 1..n |-> IF ndim = 1 THEN <<k - 1>> ELSE <<k - 1, 1000 + k>>]

\* the targets of a task: class labels, or one value per sample
TargetsOf(task_type) ==
    IF task_type = "classification" THEN Targets
    ELSE {SeriesTarget(n, 1) : n \in 0..MaxSamples}

TabularData ==
    UNION {{Container("InputData", TRUE, tt, dt, 0, y, 1, <<>>) :
               dt \in {"table", "text", "other_type"}, y \in TargetsOf(tt)} :
           tt \in {"classification", "regression"}}

\* the horizon of a series stays within the series
TimeSeriesData ==
    {Container("InputData", TRUE, "ts_forecasting", dt, sh[2],
               SeriesTarget(sh[1], nd), nd, <<>>) :
        dt \in TimeSeriesDataTypes, sh \in SeriesShapes, nd \in {1, 2}}

SourceTypePairs ==
    {<<"table", "text">>, <<"image", "table">>}

\* a MultiModalData of two sources that share samples, task and target
MultiModal ==
    UNION {{Container("MultiModalData", TRUE, tt, "none", 0, y, 1,
                <<Container("InputData", TRUE, tt, p[1], 0, y, 1, <<>>),
                  Container("InputData", TRUE, tt, p[2], 0, y, 1, <<>>)>>) :
               p \in SourceTypePairs, y \in TargetsOf(tt)} :
           tt \in {"classification", "regression"}}
    \cup
    {Container("MultiModalData", TRUE, "ts_forecasting", "none", fl,
               SeriesTarget(n, 1), 1,
               <<Container("InputData", TRUE, "ts_forecasting", "ts", fl,
                           SeriesTarget(n, 1), 1, <<>>),
                 Container("InputData", TRUE, "ts_forecasting", "multi_ts", fl,
                           SeriesTarget(n, 1), 1, <<>>)>>) :
        fl \in 1..MaxForecast, n \in 0..MaxSeries}

\* objects that are neither InputData nor MultiModalData
OtherObjects ==
    {Container("other", ht, "regression", "none", 0, <<>>, 1, <<>>) :
        ht \in BOOLEAN}

Calls(blocks) ==
    [split_ratio : SplitRatios, shuffle : BOOLEAN, shuffle_flag : BOOLEAN,
     stratify : BOOLEAN, random_seed : SeedArgs, validation_blocks : blocks]

IsTimeSeries(data) ==
    data.task_type = "ts_forecasting"

\* tabular classification data of 100 samples, 60 of class 0 and 40 of
\* class 1, and the calls that split it with split_ratio 0.8 (1. - 0.8 is
\* just below 0.2 in floating point, which leaves ceil and round of its
\* products with an integer as they are for 1/5)
HundredSamples ==
    {Container("InputData", TRUE, "classification", "table", 0,
               [k \in 1..100 |-> IF k <= 60 THEN <<0>> ELSE <<1>>], 1, <<>>)}

HundredSamplesCalls ==
    [split_ratio : {<<4, 5>>}, shuffle : BOOLEAN, shuffle_flag : BOOLEAN,
     stratify : BOOLEAN, random_seed : SeedArgs, validation_blocks : {<<>>}]

SplitInit ==
    /\ s_data \in TabularData \cup TimeSeriesData \cup MultiModal \cup OtherObjects
                  \cup HundredSamples
    /\ s_call \in IF s_data \in HundredSamples THEN HundredSamplesCalls
                  ELSE Calls(IF IsTimeSeries(s_data) THEN BlockArgs ELSE {<<>>})
    /\ IsTimeSeries(s_data) =>
         ForecastHorizon(s_data, s_call.validation_blocks) <= DataLen(s_data)
    /\ s_debug \in BOOLEAN
    /\ s_pc = "called"
    /\ s_args = EmptyArgs
    /\ s_handed = <<>>
    /\ s_key = 1
    /\ s_train = <<>>
    /\ s_test = <<>>
    /\ s_err = NoError
    /\ nodes = <<>>
    /\ original_chain_len = 0
    /\ total_nodes_deleted = 0
    /\ iteration_index = 1
    /\ worst_node_score = 0
    /\ delta = 0
    /\ deletion_scores = <<>>
    /\ deleted = <<>>
    /\ removed = {}
    /\ calls = 0
    /\ pc = "idle"
    /\ exc = "none"
    /\ result = <<>>
    /\ r_params = <<>>
    /\ r_debug = TRUE
    /\ r_pc = "idle"
    /\ r_type_rnn = ""
    /\ r_seed = <<>>
    /\ r_model = <<>>
    /\ r_prep = FALSE
    /\ r_fits = 0
    /\ r_err = <<>>

\* lines 128-141: the arguments are set, or the stratification check raises
PrepareArguments ==
    /\ s_pc = "called"
    /\ LET ia == InputArguments(s_data, s_call, s_debug)
       IN IF ia.ok
          THEN /\ s_pc' = "dispatch"
               /\ s_args' = ia.args
               /\ s_err' = s_err
          ELSE /\ s_pc' = "raised"
               /\ s_args' = s_args
               /\ s_err' = ia.err
    /\ UNCHANGED <<s_data, s_call, s_debug, s_handed, s_key, s_train, s_test>>
    /\ UNCHANGED mtaVars
    /\ UNCHANGED rnnVars

\* lines 142-154: the InputData branch
SplitInputDataStep ==
    /\ s_pc = "dispatch"
    /\ s_data.kind = "InputData"
    /\ \E entropy \in RandInts :
         LET r == SplitInputData(s_data, s_args, entropy)
         IN /\ s_pc' = IF r.ok THEN "returned" ELSE "raised"
            /\ s_train' = r.train
            /\ s_test' = r.test
            /\ s_err' = r.err
    /\ s_handed' = IF s_data.data_type \in SupportedDataTypes
                   THEN Append(s_handed, s_args) ELSE s_handed
    /\ UNCHANGED <<s_data, s_call, s_debug, s_args, s_key>>
    /\ UNCHANGED mtaVars
    /\ UNCHANGED rnnVars

\* lines 155-157: the MultiModalData branch fixes the seed of all sources
MultiModalSeed ==
    /\ s_pc = "dispatch"
    /\ s_data.kind = "MultiModalData"
    /\ \E drawn \in RandInts :
         s_args' = [s_args EXCEPT !.random_seed =
                      IF s_args.random_seed = <<>> \/ s_args.random_seed[1] = 0
                      THEN <<drawn>> ELSE s_args.random_seed]
    /\ s_pc' = "sources"
    /\ s_key' = 1
    /\ UNCHANGED <<s_data, s_call, s_debug, s_handed, s_train, s_test, s_err>>
    /\ UNCHANGED mtaVars
    /\ UNCHANGED rnnVars

SourceArgumentsRedrawn(input_arguments, entropy) ==
    [split_ratio |-> input_arguments.split_ratio,
     shuffle |-> input_arguments.shuffle,
     shuffle_flag |-> FALSE,
     stratify |-> input_arguments.stratify,
     random_seed |-> <<entropy + 1>>,
     validation_blocks |-> input_arguments.validation_blocks]

\* **input_arguments of the recursive call for a source
SourceArguments(input_arguments, entropy) ==
    [split_ratio |-> input_arguments.split_ratio,
     shuffle |-> input_arguments.shuffle,
     shuffle_flag |-> FALSE,
     stratify |-> input_arguments.stratify,
     random_seed |-> input_arguments.random_seed,
     validation_blocks |-> input_arguments.validation_blocks]

\* lines 158-159: one pass of the loop over the sources
MultiModalSource ==
    /\ s_pc = "sources"
    /\ s_key <= Len(s_data.sources)
    /\ \E entropy \in RandInts :
         LET r == SetupInputData(s_data.sources[s_key],
                                 SourceArguments(s_args, entropy),
                                 s_debug, entropy)
         IN /\ s_handed' = IF r.handed THEN Append(s_handed, r.args)
                           ELSE s_handed
            /\ IF r.ok
               THEN /\ s_train' = s_train \o r.train
                    /\ s_test' = s_test \o r.test
                    /\ s_pc' = s_pc
                    /\ s_err' = s_err
               ELSE /\ s_train' = <<>>
                    /\ s_test' = <<>>
                    /\ s_pc' = "raised"
                    /\ s_err' = r.err
    /\ s_key' = s_key + 1
    /\ UNCHANGED <<s_data, s_call, s_debug, s_args>>
    /\ UNCHANGED mtaVars
    /\ UNCHANGED rnnVars

\* line 164 after the loop
MultiModalReturn ==
    /\ s_pc = "sources"
    /\ s_key > Len(s_data.sources)
    /\ s_pc' = "returned"
    /\ UNCHANGED <<s_data, s_call, s_debug, s_args, s_handed, s_key, s_train,
                   s_test, s_err>>
    /\ UNCHANGED mtaVars
    /\ UNCHANGED rnnVars

\* lines 160-162: neither InputData nor MultiModalData
UnsupportedContainer ==
    /\ s_pc = "dispatch"
    /\ s_data.kind \notin SupportedContainers
    /\ s_pc' = "raised"
    /\ s_err' = UnsupportedDatasetError(s_data)
    /\ UNCHANGED <<s_data, s_call, s_debug, s_args, s_handed, s_key, s_train,
                   s_test>>
    /\ UNCHANGED mtaVars
    /\ UNCHANGED rnnVars

SplitNext ==
    \/ PrepareArguments
    \/ SplitInputDataStep
    \/ MultiModalSeed
    \/ MultiModalSource
    \/ MultiModalReturn
    \/ UnsupportedContainer

\* the splitter alone: no analyzer is constructed
SpecSplit == SplitInit /\ [][SplitNext]_vars

\* the analyzer alone: no call of the splitter is made
SpecMTA == MTAInit /\ [][MTANext]_vars

----------------------------------------------------------------------------
\* RNNImplementation
\* A parameter that params.get finds is <<v>>, one it does not find is <<>>
\* (None); a list is a sequence.

\* the list the constructor checks self.type_rnn against
AllowedRnnTypes == {"rnn_elman", "rnn_jordan", "lstm", "gru"}

\* the rnn_type values a caller may give: the documented ones, two that are
\* not documented, and none
RnnTypeArgs ==
    {<<>>} \cup {<<t>> : t \in AllowedRnnTypes \cup {"", "transformer"}}

SeedParams == {<<>>, <<1>>}

ConvLayersArgs == {<<>>, <<0>>, <<1>>, <<2>>}

ChannelArgs == {<<>>, <<<<8>>>>, <<<<8, 16>>>>}

KernelArgs == {<<>>, <<<<3>>>>, <<<<3, 3>>>>}

RnnParams ==
    [rnn_type : RnnTypeArgs, seed : SeedParams, conv_layers : ConvLayersArgs,
     conv_out_channels : ChannelArgs, conv_kernel_size : KernelArgs]

\* bool(x) of an optional string
TruthyStr(x) == x # <<>> /\ x[1] # ""

\* bool(x) of an optional integer
TruthyInt(x) == x # <<>> /\ x[1] # 0

\* bool(x) of an optional list
TruthyList(x) == x # <<>> /\ Len(x[1]) > 0

\* params.get('rnn_type') or 'rnn_elman'
TypeRnn(params) ==
    IF TruthyStr(params.rnn_type) THEN params.rnn_type[1] ELSE "rnn_elman"

UnknownRnnTypeError(type_rnn) ==
    [kind |-> "ValueError", site |-> "unknown rnn type",
     names |-> {type_rnn}, lists |-> AllowedRnnTypes]

\* RNNImplementation.__init__: the type it keeps, or its ValueError
Constructor(params) ==
    LET type_rnn == TypeRnn(params)
    IN IF type_rnn \notin AllowedRnnTypes
       THEN [ok |-> FALSE, type_rnn |-> type_rnn,
             err |-> UnknownRnnTypeError(type_rnn)]
       ELSE [ok |-> TRUE, type_rnn |-> type_rnn, err |-> NoError]

PyTypeError(site) ==
    [kind |-> "TypeError", site |-> site, names |-> {}, lists |-> {}]

PyAttributeError(site) ==
    [kind |-> "AttributeError", site |-> site, names |-> {}, lists |-> {}]

PyKeyError(site) ==
    [kind |-> "KeyError", site |-> site, names |-> {}, lists |-> {}]

\* the __init__ body GRUModel, LSTMModel and RNNModel share. With
\* convolutional layers asked for, the first assert (or, without asserts,
\* the first Conv1d argument) evaluates conv_params.get['out_channels']: a
\* subscript of the bound method dict.get, which raises TypeError.
ModelInit(class, conv_layers, conv_params, debug) ==
    IF conv_layers # <<>> /\ conv_layers[1] > 0
    THEN [ok |-> FALSE, model |-> <<>>,
          err |-> PyTypeError(IF debug THEN "conv_params.get[...] in assert"
                              ELSE "conv_params.get[...] in Conv1d")]
    ELSE [ok |-> TRUE,
          model |-> <<[class |-> class, conv |-> FALSE, training |-> FALSE]>>,
          err |-> NoError]

\* lines 121-144 of fit: the model the call builds for self.type_rnn.
\* RNNModel.__init__ has a parameter conv without a default that fit does not
\* pass; no branch exists for 'rnn_jordan'.
BuildModel(type_rnn, conv_layers, conv_params, debug) ==
    IF type_rnn = "gru"
    THEN [built |-> TRUE] @@ ModelInit("GRUModel", conv_layers, conv_params, debug)
    ELSE IF type_rnn = "lstm"
    THEN [built |-> TRUE] @@ ModelInit("LSTMModel", conv_layers, conv_params, debug)
    ELSE IF type_rnn = "rnn_elman"
    THEN [built |-> TRUE, ok |-> FALSE, model |-> <<>>,
          err |-> PyTypeError("RNNModel.__init__ missing argument conv")]
    ELSE [built |-> FALSE, ok |-> TRUE, model |-> <<>>, err |-> NoError]

\* the state before construction: the parameters are chosen
RNNInit ==
    /\ r_params \in RnnParams
    /\ r_debug \in BOOLEAN
    /\ r_pc = "new"
    /\ r_type_rnn = ""
    /\ r_seed = <<>>
    /\ r_model = <<>>
    /\ r_prep = FALSE
    /\ r_fits = 0
    /\ r_err = NoError
    /\ nodes = <<>>
    /\ original_chain_len = 0
    /\ total_nodes_deleted = 0
    /\ iteration_index = 1
    /\ worst_node_score = 0
    /\ delta = 0
    /\ deletion_scores = <<>>
    /\ deleted = <<>>
    /\ removed = {}
    /\ calls = 0
    /\ pc = "idle"
    /\ exc = "none"
    /\ result = <<>>
    /\ s_data = <<>>
    /\ s_call = <<>>
    /\ s_debug = TRUE
    /\ s_pc = "idle"
    /\ s_args = <<>>
    /\ s_handed = <<>>
    /\ s_key = 1
    /\ s_train = <<>>
    /\ s_test = <<>>
    /\ s_err = <<>>

\* RNNImplementation(params)
Construct ==
    /\ r_pc = "new"
    /\ LET c == Constructor(r_params)
       IN /\ r_type_rnn' = c.type_rnn
          /\ r_pc' = IF c.ok THEN "constructed" ELSE "init_raised"
          /\ r_err' = c.err
    /\ r_seed' = r_params.seed
    /\ r_model' = <<>>
    /\ UNCHANGED <<r_params, r_debug, r_prep, r_fits>>
    /\ UNCHANGED mtaVars
    /\ UNCHANGED splitVars

\* fit(data)
Fit ==
    /\ r_pc \in {"constructed", "fitted", "fit_raised", "predicted",
                 "predict_raised"}
    /\ r_fits < MaxFits
    /\ r_fits' = r_fits + 1
    /\ LET conv_layers ==
               IF TruthyInt(r_params.conv_layers)
               THEN r_params.conv_layers ELSE <<>>
           conv_params ==
               [out_channels |-> IF TruthyList(r_params.conv_out_channels)
                                 THEN r_params.conv_out_channels ELSE <<>>,
                kernel_size |-> IF TruthyList(r_params.conv_kernel_size)
                                THEN r_params.conv_kernel_size ELSE <<>>]
           b == BuildModel(r_type_rnn, conv_layers, conv_params, r_debug)
           model == IF b.built /\ b.ok THEN b.model ELSE r_model
       IN IF ~b.ok
          THEN \* a model constructor raised: self.model is not assigned
               /\ r_pc' = "fit_raised"
               /\ r_err' = b.err
               /\ UNCHANGED <<r_model, r_prep>>
          ELSE IF r_seed = <<>>
          THEN \* torch.manual_seed(None)
               /\ r_pc' = "fit_raised"
               /\ r_err' = PyTypeError("torch.manual_seed(None)")
               /\ r_model' = model
               /\ UNCHANGED r_prep
          ELSE IF model = <<>>
          THEN \* self.model.to(self.device) on None
               /\ r_pc' = "fit_raised"
               /\ r_err' = PyAttributeError("self.model.to")
               /\ r_model' = model
               /\ UNCHANGED r_prep
          ELSE \* the training loop runs
               /\ r_pc' = "fitted"
               /\ r_err' = NoError
               /\ r_model' = <<[model[1] EXCEPT !.training = TRUE]>>
               /\ r_prep' = TRUE
    /\ UNCHANGED <<r_params, r_debug, r_type_rnn, r_seed>>
    /\ UNCHANGED mtaVars
    /\ UNCHANGED splitVars

\* predict(data)
Predict ==
    /\ r_pc \in {"constructed", "fitted", "fit_raised"}
    /\ IF r_model = <<>>
       THEN \* self.model.eval() on None
            /\ r_pc' = "predict_raised"
            /\ r_err' = PyAttributeError("self.model.eval")
            /\ UNCHANGED r_model
       ELSE IF ~r_prep
       THEN \* preprocessing reads self.preprocessing_params['mean']
            /\ r_pc' = "predict_raised"
            /\ r_err' = PyKeyError("preprocessing_params['mean']")
            /\ r_model' = <<[r_model[1] EXCEPT !.training = FALSE]>>
       ELSE /\ r_pc' = "predicted"
            /\ r_err' = NoError
            /\ r_model' = <<[r_model[1] EXCEPT !.training = FALSE]>>
    /\ UNCHANGED <<r_params, r_debug, r_type_rnn, r_seed, r_prep, r_fits>>
    /\ UNCHANGED mtaVars
    /\ UNCHANGED splitVars

RNNNext ==
    \/ Construct
    \/ Fit
    \/ Predict

\* an RNNImplementation alone
SpecRNN == RNNInit /\ [][RNNNext]_vars

----------------------------------------------------------------------------
\* Claims about MultiTimesAnalyze

\* the first position of s that attains the greatest element of s
IsFirstArgMax(s, i) ==
    /\ i \in 1..Len(s)
    /\ \A j \in 1..Len(s) : s[j] <= s[i]
    /\ \A j \in 1..(i - 1) : s[j] < s[i]

\* the sequence s without its i-th element
WithoutPosition(s, i) ==
    [k \in 1..(Len(s) - 1) |-> IF k < i THEN s[k] ELSE s[k + 1]]

\* a step that is one pass of the loop body which ran to its end
IterationStep ==
    pc = "loop" /\ pc' = "loop" /\ iteration_index' = iteration_index + 1

C2_IterationStep ==
    IterationStep =>
        /\ Len(deletion_scores') = Len(nodes)
        /\ \A j \in 1..Len(nodes) : deletion_scores'[j] <= worst_node_score'
        /\ \E j \in 1..Len(nodes) : deletion_scores'[j] = worst_node_score'
        /\ IF worst_node_score' > ONE + delta /\ Len(nodes) > 2
           THEN \E i \in 1..Len(nodes) :
                  /\ IsFirstArgMax(deletion_scores', i)
                  /\ nodes' = WithoutPosition(nodes, i)
                  /\ deleted' = Append(deleted, nodes[i])
                  /\ total_nodes_deleted' = total_nodes_deleted + 1
           ELSE /\ nodes' = nodes
                /\ deleted' = deleted
                /\ total_nodes_deleted' = total_nodes_deleted
                /\ ~(worst_node_score' > ONE + delta')
                /\ ~(LoopCondition')

C2_Scenario ==
    (/\ calls = 1
     /\ original_chain_len = 3
     /\ delta = 1
     /\ iteration_index = 2
     /\ deletion_scores = <<100, 130, 105>>) =>
        /\ nodes = <<1, 3>>
        /\ deleted = <<2>>
        /\ pc = "done" => result = <<1, 3>>
        /\ pc # "raised"

C3_RatioAgainstOriginalLength ==
    /\ original_chain_len = Len(nodes) + Cardinality(removed)
    /\ pc = "done" =>
         /\ result = <<Len(deleted), Len(nodes) + Cardinality(removed)>>
         /\ 0 <= result[1]
         /\ result[1] < result[2]

\* C3 witness: a call that deleted a node has returned, so the chain is
\* shorter than the length the ratio is taken against.
C3_Witness ==
    /\ pc = "done"
    /\ Len(deleted) >= 1
    /\ Len(nodes) < original_chain_len
    /\ result = <<Len(deleted), original_chain_len>>

\* C4: when the refit or the analysis of an iteration raises, the exception
\* leaves analyze (the loop takes no further step, nothing is returned) and
\* the live chain is left as it was: the nodes deleted before stay deleted.
C4_RaiseStep ==
    (pc = "loop" /\ LoopCondition /\ pc' # "loop") =>
        /\ pc' = "raised"
        /\ exc' = "Exception"
        /\ result' = <<>>
        /\ nodes' = nodes
        /\ removed' = removed
        /\ \A i \in 1..Len(deleted) :
             \A j \in 1..Len(nodes') : nodes'[j] # deleted[i]

C4_Raised ==
    pc = "raised" =>
        /\ exc # "none"
        /\ result = <<>>
        /\ ~ENABLED Iteration
        /\ ~ENABLED Finish
        /\ \A i \in 1..Len(deleted) :
             \A j \in 1..Len(nodes) : nodes[j] # deleted[i]

\* C4: a raising iteration leaves analyze with the exception, without a
\* result and without touching the live chain, and the call stays ended.
C4_ExceptionPropagates ==
    [][C4_RaiseStep]_vars /\ []C4_Raised

\* C4 witness: an iteration raised after an earlier iteration deleted a node.
C4_Witness ==
    /\ pc = "raised"
    /\ exc = "Exception"
    /\ Len(deleted) >= 1
    /\ Len(nodes) = original_chain_len - Cardinality(removed)
    /\ Cardinality(removed) >= 1

----------------------------------------------------------------------------
\* Claims about train_test_data_setup

\* the call has ended
SplitEnded == s_pc \in {"returned", "raised"}

\* the container the k-th result container was split from
SourceOf(k) ==
    IF s_data.kind = "MultiModalData" THEN s_data.sources[k] ELSE s_data

\* C5: the arguments handed to a split function satisfy: stratify implies
\* shuffle; shuffle implies a seed that is not None, and 42 when the caller
\* gave None; no shuffle implies the seed None.
C5_ArgumentsConsistent ==
    \A k \in 1..Len(s_handed) :
        LET a == s_handed[k] IN
        /\ a.stratify => a.shuffle
        /\ a.shuffle => /\ a.random_seed # <<>>
                        /\ s_call.random_seed = <<>> => a.random_seed = <<42>>
        /\ ~a.shuffle => a.random_seed = <<>>

\* C5 witness: a stratified split was handed shuffle and the default seed,
\* the caller having asked for no shuffle and given no seed.
C5_Witness ==
    /\ s_data.kind = "InputData"
    /\ Len(s_handed) = 1
    /\ ~s_call.shuffle /\ ~s_call.shuffle_flag
    /\ s_call.random_seed = <<>>
    /\ s_handed[1].stratify
    /\ s_handed[1].shuffle
    /\ s_handed[1].random_seed = <<42>>

\* the positions (from 0) from..to-1 in order
Range(from, to) == [k \in 1..(to - from) |-> from + k - 1]

\* train and test of a series n long are the first n-h and the last h samples
ContiguousSplit(k, h) ==
    LET n == DataLen(SourceOf(k)) IN
    /\ s_train[k].idx = Range(0, n - h)
    /\ s_test[k].idx = Range(n - h, n)
    /\ Len(s_train[k].target) = n - h
    /\ Len(s_test[k].target) = h
    /\ \A i \in 1..(n - h) : s_train[k].target[i] = SourceOf(k).target[i]
    /\ \A i \in 1..h : s_test[k].target[i][1] = SourceOf(k).target[n - h + i][1]

MaxOfOne(x) == IF x > 1 THEN x ELSE 1

\* C6 as stated: test is the last forecast_length * max(validation_blocks, 1)
\* samples of the series and train is every sample before them.
\* (Stated for the series that are at least that long.)
C6_AsStated ==
    (s_pc = "returned" /\ IsTimeSeries(s_data)) =>
        \A k \in 1..Len(s_train) :
            LET h == SourceOf(k).forecast_length
                       * (IF s_call.validation_blocks = <<>> THEN 1
                          ELSE MaxOfOne(s_call.validation_blocks[1]))
            IN h <= DataLen(SourceOf(k)) => ContiguousSplit(k, h)

\* C6 amended: test is the last forecast_length * validation_blocks samples
\* (forecast_length when validation_blocks is None) and train is every sample
\* before them, for a horizon within the series; train and test are disjoint
\* and cover the series, and 0 blocks give an empty test part.
C6_ContiguousSplit ==
    (s_pc = "returned" /\ IsTimeSeries(s_data)) =>
        \A k \in 1..Len(s_train) :
            /\ ContiguousSplit(k,
                   IF s_call.validation_blocks = <<>>
                   THEN SourceOf(k).forecast_length
                   ELSE SourceOf(k).forecast_length * s_call.validation_blocks[1])
            /\ s_train[k].idx \o s_test[k].idx = SourceOf(k).idx

\* C6 witness: a series was split with 2 validation blocks.
C6_Witness ==
    /\ s_pc = "returned"
    /\ s_data.kind = "InputData"
    /\ IsTimeSeries(s_data)
    /\ s_call.validation_blocks = <<2>>
    /\ s_data.forecast_length = 2
    /\ Len(s_test[1].idx) = 4
    /\ Len(s_train[1].idx) = DataLen(s_data) - 4

\* C7: with validation_blocks unset the test container holds the features of
\* the train container and the last forecast_length values as target (120
\* samples with forecast_length 12 give 108 and 12); with validation_blocks
\* set the test container holds the features of its own slice.
C7_OutOfSampleFeatures ==
    (s_pc = "returned" /\ IsTimeSeries(s_data)) =>
        \A k \in 1..Len(s_train) :
            LET n == DataLen(SourceOf(k))
                fl == SourceOf(k).forecast_length
            IN IF s_call.validation_blocks = <<>>
               THEN /\ s_test[k].features = s_train[k].features
                    /\ Len(s_train[k].features) = n - fl
                    /\ Len(s_test[k].target) = fl
                    /\ \A i \in 1..fl :
                         s_test[k].target[i][1] = SourceOf(k).target[n - fl + i][1]
                    /\ (n = 120 /\ fl = 12) =>
                         /\ Len(s_train[k].target) = 108
                         /\ Len(s_test[k].target) = 12
               ELSE LET h == fl * s_call.validation_blocks[1]
                    IN s_test[k].features
                         = [i \in 1..h |-> SourceOf(k).features[n - h + i]]

\* C7 witness: the series of 120 samples was split with forecast_length 12.
C7_Witness ==
    /\ s_pc = "returned"
    /\ IsTimeSeries(s_data)
    /\ DataLen(s_data) = 120
    /\ s_data.forecast_length = 12
    /\ s_call.validation_blocks = <<>>
    /\ Len(s_train[1].target) = 108
    /\ Len(s_test[1].target) = 12
    /\ Len(s_test[1].features) = 108

\* the stratification check raised
StratificationError == s_pc = "raised" /\ s_err.site = "stratification"

\* C8: stratification is used for classification only; a class with fewer
\* than 2 occurrences disables it silently under debug conditions and
\* otherwise raises a ValueError naming the labels of those classes; if all
\* classes have 2 occurrences and round(n * (1 - split_ratio)) is below the
\* number of classes it is disabled silently; otherwise it is allowed.
C8_StratificationFeasibility ==
    (s_pc # "called" /\ s_data.has_task) =>
        LET y == s_data.target
            n == Len(y)
            few == {l \in Labels(y) : CountOf(y, l) < 2}
            test_size == PyRound(n * (s_call.split_ratio[2] - s_call.split_ratio[1]),
                                 s_call.split_ratio[2])
            disabled == ~StratificationError /\ ~s_args.stratify
        IN IF s_data.task_type # "classification" THEN disabled
           ELSE IF few # {}
           THEN IF s_debug THEN disabled
                ELSE /\ StratificationError
                     /\ s_err.kind = "ValueError"
                     /\ s_err.names = few
           ELSE IF test_size < Cardinality(Labels(y)) THEN disabled
           ELSE /\ ~StratificationError
                /\ s_pc = "dispatch" => s_args.stratify = s_call.stratify

\* C8 witness: without debug conditions a target with a single occurrence of
\* class 1 made the check raise, naming 1.
C8_Witness ==
    /\ StratificationError
    /\ ~s_debug
    /\ s_data.task_type = "classification"
    /\ CountOf(s_data.target, 1) = 1
    /\ CountOf(s_data.target, 0) = 3
    /\ s_err.names = {1}

\* the data of the call is of no supported kind
Unsupported ==
    \/ s_data.kind \notin SupportedContainers
    \/ s_data.kind = "InputData" /\ s_data.data_type \notin SupportedDataTypes

\* the type in the way of the split
UnsupportedType ==
    IF s_data.kind = "InputData" THEN s_data.data_type ELSE s_data.kind

\* C9 as stated: an unsupported data type or container type ends the call
\* with a TypeError that names the unsupported type and lists the supported
\* types; no other error is raised and nothing is returned.
C9_AsStated ==
    (SplitEnded /\ Unsupported) =>
        /\ s_pc = "raised"
        /\ s_err.kind = "TypeError"
        /\ UnsupportedType \in s_err.names
        /\ s_err.lists \in {SupportedDataTypes, SupportedContainers}

Elements(q) == {q[i] : i \in 1..Len(q)}

AbsDiff(a, b) == IF a >= b THEN a - b ELSE b - a

\* C11: for non-time-series data of n samples and a split_ratio r, the train
\* and the test indices of a split are disjoint and cover the n samples
\* (len(train) + len(test) = n), and len(test) is within one of
\* round(n * (1 - r)); 100 samples with r = 0.8 give 80 and 20.
C11_SplitSizes ==
    (s_pc = "returned" /\ ~IsTimeSeries(s_data)) =>
        \A k \in 1..Len(s_train) :
            LET n == DataLen(SourceOf(k))
                r == s_call.split_ratio
                tr == s_train[k].idx
                te == s_test[k].idx
            IN /\ Elements(tr) \cap Elements(te) = {}
               /\ Elements(tr) \cup Elements(te) = Elements(SourceOf(k).idx)
               /\ Cardinality(Elements(tr)) = Len(tr)
               /\ Cardinality(Elements(te)) = Len(te)
               /\ Len(tr) + Len(te) = n
               /\ Len(s_train[k].target) = Len(tr)
               /\ Len(s_test[k].target) = Len(te)
               /\ AbsDiff(Len(te), PyRound(n * (r[2] - r[1]), r[2])) <= 1
               /\ (n = 100 /\ r = <<4, 5>>) => (Len(tr) = 80 /\ Len(te) = 20)

\* C11 witness: the 100 samples were split stratified into 80 and 20, both
\* parts holding both classes.
C11_Witness ==
    /\ s_pc = "returned"
    /\ s_data \in HundredSamples
    /\ s_args.stratify
    /\ Len(s_train[1].idx) = 80
    /\ Len(s_test[1].idx) = 20
    /\ Labels(s_train[1].target) = {0, 1}
    /\ Labels(s_test[1].target) = {0, 1}

----------------------------------------------------------------------------
\* Claims about RNNImplementation

\* the rnn_type of the call is one of the documented ones, or is not given
DocumentedVariant ==
    r_params.rnn_type = <<>> \/ r_params.rnn_type[1] \in AllowedRnnTypes

\* convolutional layers are asked for
ConvEnabled == TruthyInt(r_params.conv_layers)

\* C12 as stated: for each of the four documented rnn_type values, and for
\* the default when none is given, construction succeeds and a following fit
\* builds the model, so that self.model is set and predict can use it. (Read
\* for calls with a seed and without convolutional layers.)
C12_AsStated ==
    (DocumentedVariant /\ r_params.seed # <<>> /\ ~ConvEnabled) =>
        /\ r_pc # "init_raised"
        /\ r_fits >= 1 => (r_pc # "fit_raised" /\ r_model # <<>>)
        /\ r_pc # "predict_raised"

\* C13 as stated: an rnn_type outside the allowed set is rejected at
\* construction with an error that names the tag and enumerates the allowed
\* values; no object with such a tag gets to fit or predict.
C13_AsStated ==
    (/\ r_pc # "new"
     /\ r_params.rnn_type # <<>>
     /\ r_params.rnn_type[1] \notin AllowedRnnTypes) =>
        /\ r_pc = "init_raised"
        /\ r_err.kind = "ValueError"
        /\ r_params.rnn_type[1] \in r_err.names
        /\ r_err.lists = AllowedRnnTypes

\* a parameter the convolutional layers depend on is missing or of another
\* length than conv_layers
ConvMismatch ==
    LET n == r_params.conv_layers[1]
        oc == r_params.conv_out_channels
        ks == r_params.conv_kernel_size
    IN \/ oc = <<>>
       \/ ks = <<>>
       \/ Len(oc[1]) # n
       \/ Len(ks[1]) # n

\* C14 as stated: with conv_layers > 0 a configuration error is raised
\* exactly when a dependent parameter is missing or mismatched, at
\* construction time, so no such configuration gets to fit; with matching
\* parameters the model is built with its convolutional layers. (Read for
\* 'gru' and 'lstm' with a seed.)
C14_AsStated ==
    (/\ ConvEnabled
     /\ r_fits >= 1
     /\ r_type_rnn \in {"gru", "lstm"}
     /\ r_seed # <<>>) =>
        /\ ~ConvMismatch
        /\ r_pc # "fit_raised"
        /\ r_model # <<>>
        /\ r_model[1].conv

----------------------------------------------------------------------------
\* Chain length accounting of MultiTimesAnalyze

\* analyze is at a loop boundary or has ended
AtLoopBoundary == pc \in {"loop", "done", "raised"}

\* C15 as stated: at every loop boundary of analyze, total_nodes_deleted plus
\* the number of nodes of the live chain is the chain length captured at
\* construction.
C15_AsStated ==
    AtLoopBoundary =>
        total_nodes_deleted + Len(nodes) = original_chain_len

\* C15, amended: the nodes of the live chain and the nodes deleted by all
\* analyze calls so far make up the chain length captured at construction;
\* total_nodes_deleted counts the deletions of the current call only, so the
\* sum of the claim holds at every loop boundary of the first call, and in a
\* later call the sum falls short by the deletions of the earlier calls.
\* Every step of the loop either leaves the chain alone or removes exactly
\* one node and counts it.
C15_ChainLengthAccounting ==
    /\ Len(nodes) + Cardinality(removed) = original_chain_len
    /\ AtLoopBoundary =>
           /\ total_nodes_deleted = Len(deleted)
           /\ total_nodes_deleted + Len(nodes)
                  = original_chain_len - (Cardinality(removed) - Len(deleted))
           /\ calls = 1 =>
                  total_nodes_deleted + Len(nodes) = original_chain_len

\* a second call has deleted a node after the first call deleted one
C15_Witness ==
    /\ calls = 2
    /\ pc = "done"
    /\ total_nodes_deleted >= 1
    /\ Cardinality(removed) > total_nodes_deleted

----------------------------------------------------------------------------
\* Calls of train_test_data_setup without stratification, and with a seed

\* C16 as stated: a call with stratify=False never ends with the
\* stratification error (a class with a single occurrence), whatever the
\* class counts and with or without debug conditions; the split is handed
\* stratify False and shuffle equal to shuffle OR shuffle_flag.
C16_AsStated ==
    (s_pc # "called" /\ s_data.has_task /\ ~s_call.stratify) =>
        /\ ~StratificationError
        /\ \A k \in 1..Len(s_handed) :
             /\ ~s_handed[k].stratify
             /\ s_handed[k].shuffle = (s_call.shuffle \/ s_call.shuffle_flag)

\* C17 as stated: when shuffling is in effect and the caller supplies an
\* integer random_seed, the split is made with exactly the supplied seed.
C17_AsStated ==
    (s_pc = "returned" /\ ~IsTimeSeries(s_data)) =>
        \A k \in 1..Len(s_handed) :
            (s_handed[k].shuffle /\ s_call.random_seed # <<>>) =>
                s_handed[k].random_seed = s_call.random_seed

====
